---- MODULE Spec2Model ----
(***************************************************************************)
(* SVGView (nbsvg/js/SVGView.js): a Backbone/IPython widget view that      *)
(* mounts an <svg> element under its host element and overwrites that      *)
(* element's markup with Model.svg on every change:svg event.              *)
(*                                                                         *)
(* The view's collaborators are modelled by what the view's calls do to    *)
(* them:                                                                   *)
(*   - the Model (Backbone.Model): get('svg') returns the current value;   *)
(*     on('change:svg', cb, ctx) appends one entry to the model's listener *)
(*     list; a change of svg issues one notification addressed to the      *)
(*     entries registered at that moment;                                  *)
(*   - the DOM (jQuery): $('<svg>') creates an empty element, append adds  *)
(*     it as the last child, html(s) replaces the whole markup of the      *)
(*     element, attr({k: v}) sets an HTML attribute (not a CSS property);  *)
(*   - the base view (Backbone.View.remove): detaches the host element and *)
(*     calls stopListening, which undoes listenTo registrations only.      *)
(*                                                                         *)
(* The content of an element is the markup string last handed to html();   *)
(* what the browser parses it into is outside the view's code.  Delivery   *)
(* of a notification is a step of its own, so that late, reordered and     *)
(* repeated deliveries are behaviours of the model; Backbone's synchronous *)
(* trigger is the behaviour where each Set is followed by its Deliver.     *)
(***************************************************************************)
EXTENDS Integers, Sequences, FiniteSets, TLC

\* ---------------------------------------------------------------- bounds
MaxUpdates == 2     \* changes of svg, over all Models
MaxCalls   == 2     \* runs of the change handler other than render's own:
                    \* deliveries of notifications plus direct invocations
MaxRenders == 2     \* invocations of render, over all views

\* ------------------------------------------------------------- universe
Views  == {"A", "B"}
Models == {"MA", "MB"}
Values == {"", "<rect/>", "<line/>"}

\* this.model of each view: two views on two independent Models
model == [v \in Views |-> IF v = "A" THEN "MA" ELSE "MB"]

VARIABLES
    hist,        \* per Model: the values svg has held, oldest first; the last is current
    notes,       \* per Model: the change:svg notifications issued so far
    listeners,   \* per Model: the change:svg listener entries, as the view each is bound to
    listeningTo, \* per view: the Models it registered on through listenTo
    el,          \* per view: the host element this.$el
    dsvg,        \* per view: this.$svg as an index into el.children, 0 when undefined
    status,      \* per view: "unmounted", "mounted" or "removed"
    renders,     \* per view: how often render has run
    direct,      \* per view: how often svg_changed has been invoked directly
    firstSync    \* per view: what invoked svg_changed first

vars == <<hist, notes, listeners, listeningTo, el, dsvg, status, renders,
          direct, firstSync>>

\* ------------------------------------------------------------ the Model
\* the version (position in hist) of the value model.get('svg') returns
CurrentVer(m) == Len(hist[m])

\* this.model.get('svg')
get(m) == hist[m][CurrentVer(m)]

\* svg_changed reads the Model when it runs; `carried` is the version the
\* triggering notification announced, which the code never looks at
\* (ReadCarried: the variant that would use it)
ReadCarried(m, carried) == carried
ReadVer(m, carried) == CurrentVer(m)

\* model.on('change:svg', this.svg_changed, this): one more entry on this
\* Model's list, no check for an entry already there.
\* Variants: no registration, registration skipped when an entry exists,
\* registration on every Model, registration of two entries
Range0(s) == {s[k] : k \in 1..Len(s)}
on_none(ls, m, v) == ls
on_dedup(ls, m, v) ==
    IF v \in Range0(ls[m]) THEN ls ELSE [ls EXCEPT ![m] = Append(@, v)]
on_all(ls, m, v) == [k \in Models |-> Append(ls[k], v)]
on_twice(ls, m, v) == [ls EXCEPT ![m] = Append(Append(@, v), v)]
on(ls, m, v) == [ls EXCEPT ![m] = Append(@, v)]

\* Backbone's stopListening: removes the entries of view v from the Models
\* the view registered on through listenTo, and from no other Model
RECURSIVE Without(_, _)
Without(s, v) ==
    IF s = <<>> THEN <<>>
    ELSE IF Head(s) = v THEN Without(Tail(s), v)
    ELSE <<Head(s)>> \o Without(Tail(s), v)

stopListening(ls, v) ==
    [m \in Models |-> IF m \in listeningTo[v] THEN Without(ls[m], v) ELSE ls[m]]

\* ------------------------------------------------------------- the DOM
\* $('<svg>'): a new, empty element. ver is the version of Model.svg its
\* markup was read from (0: none yet), writes the number of html() calls
NewSvg == [tag |-> "svg", html |-> "", ver |-> 0, writes |-> 0]

\* $x.html(value): the markup is replaced in full (html_append: the
\* variant that would add to it, as .append(value) does)
html_append(content, value) == content \o value
html(content, value) == value

\* this.$el.append(this.$svg)
append(e, child) == [e EXCEPT !.children = Append(@, child)]

\* this.$el.attr({overflow: 'hidden'}): the HTML attribute; the element's
\* CSS (e.css) is what .css() would set and is not touched
attr(e, name, value) == [e EXCEPT !.attr = [@ EXCEPT ![name] = value]]

\* the host element before render
NewEl == [children |-> <<>>,
          attr     |-> [overflow |-> "unset"],
          css      |-> [overflow |-> "visible"]]

\* ------------------------------------------------------------ the view
\* svg_changed on view v whose $svg is child i of host element e:
\*   this.$svg.html(this.model.get('svg'))
svg_changed(e, i, v, carried) ==
    LET ver == ReadVer(model[v], carried)
    IN  [e EXCEPT !.children[i] =
            [@ EXCEPT !.html   = html(@, hist[model[v]][ver]),
                      !.ver    = ver,
                      !.writes = @ + 1]]

\* the initial sync of render (NoSync: the variant without it, where the
\* element stays empty until the first notification)
NoSync(e, i, v, carried) == e
InitialSync(e, i, v, carried) == svg_changed(e, i, v, carried)

\* the listener entries a notification is addressed to: the entries on the
\* Model's list when the change is triggered (SnapshotAll: the variant
\* where every view of the Model listens from its construction)
SnapshotAll(m) == SelectSeq(<<"A", "B">>, LAMBDA v : model[v] = m)
Snapshot(m) == listeners[m]

\* the event bus calling each addressed entry in turn; an entry whose view
\* has no $svg throws and writes nothing
RECURSIVE Dispatch(_, _, _)
Dispatch(els, snap, carried) ==
    IF snap = <<>> THEN els
    ELSE LET v == Head(snap)
             e == IF dsvg[v] = 0 THEN els[v]
                  ELSE svg_changed(els[v], dsvg[v], v, carried)
         IN  Dispatch([els EXCEPT ![v] = e], Tail(snap), carried)

Range(s) == {s[k] : k \in 1..Len(s)}

RECURSIVE SumOver(_, _)
SumOver(f, S) ==
    IF S = {} THEN 0
    ELSE LET x == CHOOSE y \in S : TRUE
         IN  f[x] + SumOver(f, S \ {x})

RECURSIVE DeliveredOf(_)
DeliveredOf(ns) ==
    IF ns = <<>> THEN 0 ELSE Head(ns).delivered + DeliveredOf(Tail(ns))

Updates  == SumOver([m \in Models |-> Len(notes[m])], Models)
Calls    == SumOver([m \in Models |-> DeliveredOf(notes[m])], Models)
            + SumOver(direct, Views)
Rendered == SumOver(renders, Views)

\* -------------------------------------------------------------- Init
\* every Model starts with the empty markup; views are constructed, not
\* rendered
Init ==
    /\ hist = [m \in Models |-> <<"">>]
    /\ notes = [m \in Models |-> <<>>]
    /\ listeners = [m \in Models |-> <<>>]
    /\ listeningTo = [v \in Views |-> {}]
    /\ el = [v \in Views |-> NewEl]
    /\ dsvg = [v \in Views |-> 0]
    /\ status = [v \in Views |-> "unmounted"]
    /\ renders = [v \in Views |-> 0]
    /\ direct = [v \in Views |-> 0]
    /\ firstSync = [v \in Views |-> "none"]

\* ------------------------------------------------------------ actions
\* SVGView.render
Render(v) ==
    /\ status[v] # "removed"
    /\ Rendered < MaxRenders
    /\ LET e1 == append(el[v], NewSvg)
           i  == Len(e1.children)
           e2 == InitialSync(e1, i, v, CurrentVer(model[v]))
           e3 == attr(e2, "overflow", "hidden")
       IN  /\ el' = [el EXCEPT ![v] = e3]
           /\ dsvg' = [dsvg EXCEPT ![v] = i]
           /\ firstSync' = [firstSync EXCEPT ![v] =
                              IF @ = "none" /\ e2 # e1 THEN "initial" ELSE @]
    /\ listeners' = on(listeners, model[v], v)
    /\ status' = [status EXCEPT ![v] = "mounted"]
    /\ renders' = [renders EXCEPT ![v] = @ + 1]
    /\ UNCHANGED <<hist, notes, listeningTo, direct>>

\* svg_changed invoked on a rendered view directly, outside any notification
Sync(v) ==
    /\ dsvg[v] # 0
    /\ Calls < MaxCalls
    /\ el' = [el EXCEPT ![v] = svg_changed(@, dsvg[v], v, CurrentVer(model[v]))]
    /\ direct' = [direct EXCEPT ![v] = @ + 1]
    /\ UNCHANGED <<hist, notes, listeners, listeningTo, dsvg, status, renders,
                   firstSync>>

\* the Model's svg changes to val: the value is stored and one change:svg
\* notification is issued to the entries registered now
Set(m, val) ==
    /\ Updates < MaxUpdates
    /\ val # get(m)
    /\ hist' = [hist EXCEPT ![m] = Append(@, val)]
    /\ notes' = [notes EXCEPT ![m] =
                    Append(@, [ver |-> CurrentVer(m) + 1,
                               snap |-> Snapshot(m),
                               delivered |-> 0])]
    /\ UNCHANGED <<listeners, listeningTo, el, dsvg, status, renders, direct,
                   firstSync>>

\* notification k of Model m is delivered: in any order, and possibly again
Deliver(m, k) ==
    /\ k \in 1..Len(notes[m])
    /\ Calls < MaxCalls
    /\ el' = Dispatch(el, notes[m][k].snap, notes[m][k].ver)
    /\ notes' = [notes EXCEPT ![m][k].delivered = @ + 1]
    /\ firstSync' = [v \in Views |->
                        IF firstSync[v] = "none" /\ v \in Range(notes[m][k].snap)
                        THEN "notify" ELSE firstSync[v]]
    /\ UNCHANGED <<hist, listeners, listeningTo, dsvg, status, renders, direct>>

\* teardown by the base view (Backbone.View.remove): the host element
\* leaves the document and stopListening runs
Remove(v) ==
    /\ status[v] = "mounted"
    /\ status' = [status EXCEPT ![v] = "removed"]
    /\ listeners' = stopListening(listeners, v)
    /\ UNCHANGED <<hist, notes, listeningTo, el, dsvg, renders, direct, firstSync>>

Next ==
    \/ \E v \in Views : Render(v)
    \/ \E v \in Views : Sync(v)
    \/ \E m \in Models, val \in Values : Set(m, val)
    \/ \E m \in Models, k \in 1..MaxUpdates : Deliver(m, k)
    \/ \E v \in Views : Remove(v)

Spec == Init /\ [][Next]_vars


\* ------------------------------------------------------- vocabulary
\* the Container of a rendered view: the element this.$svg refers to
Svg(v) == el[v].children[dsvg[v]]

\* how many entries of the list s are bound to view v
Count(s, v) == Cardinality({k \in 1..Len(s) : s[k] = v})

\* html() calls made on all the <svg> elements of view v
RECURSIVE WritesOf(_)
WritesOf(cs) == IF cs = <<>> THEN 0 ELSE Head(cs).writes + WritesOf(Tail(cs))

\* deliveries of notifications that were addressed to view v
RECURSIVE AddressedTo(_, _)
AddressedTo(ns, v) ==
    IF ns = <<>> THEN 0
    ELSE (IF v \in Range(Head(ns).snap) THEN Head(ns).delivered ELSE 0)
         + AddressedTo(Tail(ns), v)

\* every notification Model m has issued has been delivered
AllDelivered(m) == \A k \in 1..Len(notes[m]) : notes[m][k].delivered > 0

\* this step delivers notification k of Model m
Delivers(m, k) ==
    /\ Len(notes'[m]) = Len(notes[m])
    /\ k \in 1..Len(notes[m])
    /\ notes'[m][k].delivered = notes[m][k].delivered + 1

\* this step is a change or a delivery on Model m
Touches(m) == hist'[m] # hist[m] \/ notes'[m] # notes[m]

\* --------------------------------------------------------------- C1
\* C1: for a view rendered once and still mounted, the Container's markup
\* is the value of the version of Model.svg it was read from; that version
\* is never older than a notification already delivered; and when every
\* issued notification has been delivered the markup is the Model's
\* current svg.
C1_ContentIsCurrent ==
    \A v \in Views :
        (status[v] = "mounted" /\ renders[v] = 1) =>
            LET m == model[v]
            IN  /\ Svg(v).ver \in 1..CurrentVer(m)
                /\ Svg(v).html = hist[m][Svg(v).ver]
                /\ \A k \in 1..Len(notes[m]) :
                       notes[m][k].delivered > 0 => Svg(v).ver >= notes[m][k].ver
                /\ AllDelivered(m) => Svg(v).html = get(m)

\* two updates after the mount, both delivered, the older one last
C1_Witness ==
    \E v \in Views :
        /\ status[v] = "mounted" /\ renders[v] = 1 /\ direct[v] = 0
        /\ Len(notes[model[v]]) = 2
        /\ \A k \in 1..2 : /\ notes[model[v]][k].snap = <<v>>
                           /\ notes[model[v]][k].delivered = 1
        /\ Svg(v).html = get(model[v])
        /\ Svg(v).html # ""

\* --------------------------------------------------------------- C2
\* C2: a render step leaves this.$svg as the new last child of the host
\* element, holding exactly the value the Model has at that moment.
C2_RenderShowsValue ==
    [][\A v \in Views :
          renders'[v] = renders[v] + 1 =>
              /\ Len(el'[v].children) = Len(el[v].children) + 1
              /\ dsvg'[v] = Len(el'[v].children)
              /\ el'[v].children[dsvg'[v]].tag = "svg"
              /\ el'[v].children[dsvg'[v]].html = get(model[v])]_vars

\* rendered once, nothing else has run on the view, and the value shown was
\* set on the Model before the mount
C2_Witness ==
    \E v \in Views :
        /\ renders[v] = 1 /\ Svg(v).writes = 1
        /\ Len(notes[model[v]]) >= 1
        /\ \A k \in 1..Len(notes[model[v]]) : notes[model[v]][k].snap = <<>>
        /\ Svg(v).html = get(model[v])
        /\ Svg(v).html # ""

\* --------------------------------------------------------------- C3
\* C3: a view not yet rendered has no listener entry and no write; a view
\* rendered once has exactly one entry, on its own Model, and its <svg> has
\* been written once per delivery addressed to it, once per direct call and
\* once by render.
C3_SingleSubscription ==
    \A v \in Views :
        renders[v] <= 1 =>
            /\ \A m \in Models :
                   Count(listeners[m], v) = (IF m = model[v] THEN renders[v] ELSE 0)
            /\ WritesOf(el[v].children)
                   = renders[v] + AddressedTo(notes[model[v]], v) + direct[v]

\* two deliveries addressed to a view rendered once: three writes
C3_Witness ==
    \E v \in Views :
        /\ renders[v] = 1
        /\ AddressedTo(notes[model[v]], v) = 2
        /\ Svg(v).writes = 3

\* --------------------------------------------------------------- C4
\* C4: a change of one Model's svg, or the delivery of one of its
\* notifications, leaves the host element and $svg of every view bound to
\* another Model as they were.
C4_Isolation ==
    [][\A v \in Views :
          (\E m \in Models \ {model[v]} : Touches(m)) =>
              el'[v] = el[v] /\ dsvg'[v] = dsvg[v]]_vars

\* both views mounted; A's Model changed and A was notified and rewritten,
\* while B still shows what its render wrote
C4_Witness ==
    /\ status["A"] = "mounted" /\ status["B"] = "mounted"
    /\ \E k \in 1..Len(notes["MA"]) :
           notes["MA"][k].snap = <<"A">> /\ notes["MA"][k].delivered > 0
    /\ Svg("A").writes = 2
    /\ Svg("B").writes = 1
    /\ Svg("A").html # Svg("B").html

\* --------------------------------------------------------------- C5
\* C5: when svg_changed runs on a Container that already shows the
\* current version of Model.svg, the markup afterwards is the markup
\* before.
C5_SyncIdempotent ==
    [][\A v \in Views :
          ( /\ dsvg[v] # 0 /\ dsvg'[v] = dsvg[v]
            /\ Svg(v).ver = CurrentVer(model[v])
            /\ hist' = hist
            /\ el'[v].children[dsvg[v]].writes > Svg(v).writes )
          => el'[v].children[dsvg[v]].html = Svg(v).html]_vars

\* render's sync followed by a direct call, no change of the Model since the
\* mount, on non-empty markup
C5_Witness ==
    \E v \in Views :
        /\ renders[v] = 1 /\ direct[v] = 1 /\ Svg(v).writes = 2
        /\ \A k \in 1..Len(notes[model[v]]) : notes[model[v]][k].snap = <<>>
        /\ Svg(v).html # ""
        /\ Svg(v).html = get(model[v])

\* --------------------------------------------------------------- C6
\* C6: once a view has been rendered, the overflow style of its host
\* element is hidden, in every later state.
C6_OverflowStyleHidden ==
    \A v \in Views : renders[v] > 0 => el[v].css.overflow = "hidden"

\* --------------------------------------------------------------- C7
\* C7: svg_changed is first invoked on a view by its render; a view not
\* yet rendered has had no invocation and no listener, whatever changes and
\* deliveries its Model has seen; and no notification is addressed to a view
\* that was not rendered before the change.
C7_InitialSyncFirst ==
    \A v \in Views :
        /\ renders[v] = 0 =>
               /\ firstSync[v] = "none"
               /\ el[v].children = <<>>
               /\ \A m \in Models : Count(listeners[m], v) = 0
        /\ renders[v] > 0 => firstSync[v] = "initial"
        /\ \A m \in Models : \A k \in 1..Len(notes[m]) :
               v \in Range(notes[m][k].snap) => renders[v] > 0

\* a change made and delivered before the mount wrote nothing; the mount
\* wrote once; a later change, delivered, wrote the second time
C7_Witness ==
    \E v \in Views :
        /\ renders[v] = 1 /\ firstSync[v] = "initial"
        /\ Len(notes[model[v]]) = 2
        /\ notes[model[v]][1].snap = <<>> /\ notes[model[v]][1].delivered = 1
        /\ notes[model[v]][2].snap = <<v>> /\ notes[model[v]][2].delivered = 1
        /\ Svg(v).writes = 2

C9_DeliveryReadsCurrent ==
    [][\A m \in Models : \A k \in 1..MaxUpdates + 1 :
          Delivers(m, k) =>
              \A v \in Range(notes[m][k].snap) :
                  dsvg[v] # 0 =>
                      /\ el'[v].children[dsvg[v]].html = get(m)
                      /\ el'[v].children[dsvg[v]].ver = CurrentVer(m)
                      /\ Svg(v).ver = CurrentVer(m) =>
                             el'[v].children[dsvg[v]].html = Svg(v).html]_vars

\* two changes after the mount; only the older notification was delivered,
\* after the second change, and the view shows the second value
C9_Witness ==
    \E v \in Views :
        /\ renders[v] = 1 /\ direct[v] = 0
        /\ Len(notes[model[v]]) = 2
        /\ notes[model[v]][1].snap = <<v>> /\ notes[model[v]][1].delivered > 0
        /\ notes[model[v]][2].snap = <<v>> /\ notes[model[v]][2].delivered = 0
        /\ Svg(v).ver = 3
        /\ Svg(v).html = get(model[v])
        /\ Svg(v).html # hist[model[v]][2]

\* -------------------------------------------------------------- C10
\* C10: every render step, the first or a later one, appends one more
\* <svg> to the host element, points this.$svg at it and adds one more
\* listener entry; an <svg> that this.$svg has moved past is never written
\* again; and a delivery writes the current Container once per entry the
\* notification holds for the view.
C10_RenderNotGuarded ==
    [][\A v \in Views :
          /\ renders'[v] = renders[v] + 1 =>
                 /\ Len(el'[v].children) = Len(el[v].children) + 1
                 /\ dsvg'[v] = Len(el'[v].children)
                 /\ Count(listeners'[model[v]], v)
                        = Count(listeners[model[v]], v) + 1
          /\ \A i \in 1..Len(el[v].children) :
                 i < dsvg[v] => el'[v].children[i] = el[v].children[i]
          /\ \A k \in 1..MaxUpdates + 1 :
                 (Delivers(model[v], k) /\ dsvg[v] # 0) =>
                     el'[v].children[dsvg[v]].writes
                         = Svg(v).writes + Count(notes[model[v]][k].snap, v)]_vars

\* rendered twice, then one change delivered once: the second <svg> was
\* written by its render and twice by the delivery, the first keeps the
\* old value
C10_Witness ==
    \E v \in Views :
        /\ renders[v] = 2 /\ Len(el[v].children) = 2 /\ dsvg[v] = 2
        /\ Count(listeners[model[v]], v) = 2
        /\ \E k \in 1..Len(notes[model[v]]) :
               notes[model[v]][k].snap = <<v, v>> /\ notes[model[v]][k].delivered = 1
        /\ el[v].children[2].writes = 3
        /\ el[v].children[1].writes = 1
        /\ el[v].children[1].html # el[v].children[2].html
        /\ el[v].children[2].html = get(model[v])

====
